---- MODULE Spec2Model ----
(***************************************************************************)
(* Model of rppal's src/time.rs: the Instant timestamp (a u128 nanosecond  *)
(* counter) and its arithmetic with std::time::Duration.                   *)
(*                                                                         *)
(* TLC's integers are 32 bits wide, the program's are 64 and 128 bits      *)
(* wide.  Unsigned integers are therefore modelled at their true width, as *)
(* little-endian sequences of 16-bit limbs: a u128 is 8 limbs, a u64 is 4. *)
(* Overflow of an addition is the carry out of the top limb, underflow of  *)
(* a subtraction the borrow out of it, wrapping drops that carry or        *)
(* borrow, and the narrowing cast `as u64` keeps the low 4 limbs.          *)
(***************************************************************************)
EXTENDS Integers, Sequences, FiniteSets

\* Width in bits of Instant's counter (u128), of the narrowing cast and of
\* Duration's seconds (u64), and of one limb of the representation.
U128_BITS == 128
U64_BITS == 64
LIMB_BITS == 16

LimbBase == 2^LIMB_BITS
U128Limbs == U128_BITS \div LIMB_BITS
U64Limbs == U64_BITS \div LIMB_BITS

\* std::time::Duration counts NANOS_PER_SEC nanoseconds to the second.  The
\* two factors let a limb be multiplied by 10^9 within 31 bits.
NanosFactorA == 31250
NanosFactorB == 32000
NANOS_PER_SEC == NanosFactorA * NanosFactorB

----------------------------------------------------------------------------
(* Unsigned integers as limb sequences *)

\* n zero limbs.
RECURSIVE Zeros(_)
Zeros(n) == IF n = 0 THEN <<>> ELSE <<0>> \o Zeros(n - 1)

\* The natural number n < 2^31 as an unsigned integer of w >= 2 limbs.
FromNat(n, w) ==
    <<n % LimbBase, (n \div LimbBase) % LimbBase>> \o Zeros(w - 2)

IsUInt(p, w) ==
    /\ DOMAIN p = 1..w
    /\ \A i \in 1..w : p[i] \in 0..(LimbBase - 1)

\* The largest unsigned integer of w limbs.
RECURSIVE MaxUInt(_)
MaxUInt(w) == IF w = 0 THEN <<>> ELSE <<LimbBase - 1>> \o MaxUInt(w - 1)

\* Zero-extension of p to w limbs (`as u128` of a u64 or u32).
Widen(p, w) == p \o Zeros(w - Len(p))

\* Three-way comparison of two integers of the same width, most significant
\* limb first (Ord::cmp of the primitive).
RECURSIVE CmpFrom(_, _, _)
CmpFrom(p, q, i) ==
    IF i = 0 THEN "Equal"
    ELSE IF p[i] < q[i] THEN "Less"
    ELSE IF p[i] > q[i] THEN "Greater"
    ELSE CmpFrom(p, q, i - 1)

UCmp(p, q) == CmpFrom(p, q, Len(p))
ULt(p, q) == UCmp(p, q) = "Less"
ULe(p, q) == UCmp(p, q) # "Greater"

\* Limbs i.. of p + q followed by the carry out of the top limb.
RECURSIVE AddFrom(_, _, _, _)
AddFrom(p, q, i, carry) ==
    IF i > Len(p) THEN <<carry>>
    ELSE LET s == p[i] + q[i] + carry
         IN  <<s % LimbBase>> \o AddFrom(p, q, i + 1, s \div LimbBase)

\* p + q at their common width: the wrapped sum and whether it overflowed.
UAdd(p, q) ==
    LET r == AddFrom(p, q, 1, 0)
    IN  [val |-> SubSeq(r, 1, Len(p)), overflow |-> r[Len(p) + 1] = 1]

\* Limbs i.. of p - q followed by the borrow out of the top limb.
RECURSIVE SubFrom(_, _, _, _)
SubFrom(p, q, i, borrow) ==
    IF i > Len(p) THEN <<borrow>>
    ELSE LET s == p[i] - q[i] - borrow
         IN  IF s < 0
             THEN <<s + LimbBase>> \o SubFrom(p, q, i + 1, 1)
             ELSE <<s>> \o SubFrom(p, q, i + 1, 0)

\* p - q at their common width: the wrapped difference and whether it
\* underflowed.
USub(p, q) ==
    LET r == SubFrom(p, q, 1, 0)
    IN  [val |-> SubSeq(r, 1, Len(p)), overflow |-> r[Len(p) + 1] = 1]

\* Limbs i.. of p * m + carry for a factor m <= 32000, one limb wider than p.
RECURSIVE MulFrom(_, _, _, _)
MulFrom(p, m, i, carry) ==
    IF i > Len(p) THEN <<carry>>
    ELSE LET s == p[i] * m + carry
         IN  <<s % LimbBase>> \o MulFrom(p, m, i + 1, s \div LimbBase)

\* p * m at the width of p; the callers keep the product within it.
UMulSmall(p, m) == SubSeq(MulFrom(p, m, 1, 0), 1, Len(p))

\* Limbs i..1 of p divided by m <= 32000, most significant first, given the
\* remainder of the limbs above i: <<quotient limbs i..1, remainder>>.
RECURSIVE DivFrom(_, _, _, _)
DivFrom(p, m, i, rem) ==
    IF i = 0 THEN [quot |-> <<>>, rem |-> rem]
    ELSE LET s == rem * LimbBase + p[i]
             lower == DivFrom(p, m, i - 1, s % m)
         IN  [quot |-> Append(lower.quot, s \div m), rem |-> lower.rem]

\* Quotient and remainder of p by the small divisor m.
UDivSmall(p, m) == DivFrom(p, m, Len(p), 0)

\* `v as u64`: the low 64 bits of v; the cast never faults.
TruncU64(v) == SubSeq(v, 1, U64Limbs)

----------------------------------------------------------------------------
(* std::time::Duration: whole seconds (u64) and sub-second nanoseconds *)

Duration(secs, nanos) == [secs |-> secs, nanos |-> nanos]

IsDuration(d) ==
    /\ IsUInt(d.secs, U64Limbs)
    /\ d.nanos \in 0..(NANOS_PER_SEC - 1)

\* Duration::from_nanos(n) for a u64 n: secs = n / 10^9, nanos = n % 10^9.
\* The division by 10^9 is two divisions, by 31250 and by 32000.
from_nanos(n) ==
    LET byA == UDivSmall(n, NanosFactorA)
        byB == UDivSmall(byA.quot, NanosFactorB)
    IN  Duration(byB.quot, byB.rem * NanosFactorA + byA.rem)

\* Duration::as_nanos(): secs as u128 * 10^9 + nanos as u128.  The largest
\* Duration is below 2^94 nanoseconds, so neither step overflows.
as_nanos(d) ==
    LET secs128 == Widen(d.secs, U128Limbs)
        scaled == UMulSmall(UMulSmall(secs128, NanosFactorA), NanosFactorB)
    IN  UAdd(scaled, FromNat(d.nanos, U128Limbs)).val

----------------------------------------------------------------------------
(* Instant and its operations *)

\* struct Instant(pub(crate) u128)
Instant(count) == [count |-> count]

IsInstant(a) == IsUInt(a.count, U128Limbs)

\* The two ways the crate can be built: with overflow checks (debug
\* profile), where an overflowing `+` or `-` panics, and without (release
\* profile), where it wraps.
Builds == {"checked", "unchecked"}

\* What a call gives back: a value, or nothing because it panicked.
Ok(v) == [ok |-> TRUE, val |-> v]
NoInstant == Instant(<<>>)
NoDuration == Duration(<<>>, 0)
NoCount == <<>>

\* The primitive `+` and `-` on u128 under the build's overflow policy: the
\* result, or no result when the build checks and the operation overflowed.
U128Arith(build, r) ==
    IF r.overflow /\ build = "checked"
    THEN [ok |-> FALSE, val |-> NoCount]
    ELSE Ok(r.val)

\* duration_since with the operands of the subtraction exchanged.
duration_since_swapped(build, self, earlier) ==
    LET diff == U128Arith(build, USub(earlier.count, self.count))
    IN  IF diff.ok
        THEN Ok(from_nanos(TruncU64(diff.val)))
        ELSE [ok |-> FALSE, val |-> NoDuration]

\* duration_since with a checked narrowing, u64::try_from(..).unwrap(), in
\* place of the cast.
duration_since_try_from(build, self, earlier) ==
    LET diff == U128Arith(build, USub(self.count, earlier.count))
    IN  IF diff.ok /\ SubSeq(diff.val, U64Limbs + 1, U128Limbs) = Zeros(U64Limbs)
        THEN Ok(from_nanos(TruncU64(diff.val)))
        ELSE [ok |-> FALSE, val |-> NoDuration]

\* duration_since narrowing to 32 bits, `as u32`, before widening again.
duration_since_u32(build, self, earlier) ==
    LET diff == U128Arith(build, USub(self.count, earlier.count))
    IN  IF diff.ok
        THEN Ok(from_nanos(Widen(SubSeq(diff.val, 1, 2), U64Limbs)))
        ELSE [ok |-> FALSE, val |-> NoDuration]

\* Instant::duration_since
duration_since(build, self, earlier) ==
    LET diff == U128Arith(build, USub(self.count, earlier.count))
    IN  IF diff.ok
        THEN Ok(from_nanos(TruncU64(diff.val)))
        ELSE [ok |-> FALSE, val |-> NoDuration]

\* Instant::into_inner
into_inner(self) == self.count

\* add with the Duration's nanoseconds narrowed to 64 bits first.
add_narrowing(build, self, rhs) ==
    LET n == Widen(TruncU64(as_nanos(rhs)), U128Limbs)
        sum == U128Arith(build, UAdd(self.count, n))
    IN  IF sum.ok
        THEN Ok(Instant(sum.val))
        ELSE [ok |-> FALSE, val |-> NoInstant]

\* add that advances by the Duration's whole seconds only.
add_whole_secs(build, self, rhs) ==
    LET n == as_nanos(Duration(rhs.secs, 0))
        sum == U128Arith(build, UAdd(self.count, n))
    IN  IF sum.ok
        THEN Ok(Instant(sum.val))
        ELSE [ok |-> FALSE, val |-> NoInstant]

\* impl Add<Duration> for Instant
add(build, self, rhs) ==
    LET sum == U128Arith(build, UAdd(self.count, as_nanos(rhs)))
    IN  IF sum.ok
        THEN Ok(Instant(sum.val))
        ELSE [ok |-> FALSE, val |-> NoInstant]

\* add_assign that computes the sum and does not store it.
add_assign_discarded(build, self, rhs) ==
    IF add(build, self, rhs).ok THEN Ok(self) ELSE [ok |-> FALSE, val |-> NoInstant]

\* impl AddAssign<Duration> for Instant: the new value of *self, or a panic
\* raised before the assignment.
add_assign(build, self, rhs) == add(build, self, rhs)

\* `-` on Instants with the operands exchanged.
sub_instant_swapped(build, self, rhs) == duration_since(build, rhs, self)

\* impl Sub for Instant
sub_instant(build, self, rhs) == duration_since(build, self, rhs)

\* sub with wrapping_sub: no panic in any build.
sub_duration_wrapping(build, self, rhs) ==
    Ok(Instant(USub(self.count, as_nanos(rhs)).val))

\* impl Sub<Duration> for Instant
sub_duration(build, self, rhs) ==
    LET diff == U128Arith(build, USub(self.count, as_nanos(rhs)))
    IN  IF diff.ok
        THEN Ok(Instant(diff.val))
        ELSE [ok |-> FALSE, val |-> NoInstant]

\* sub_assign that adds.
sub_assign_adds(build, self, rhs) == add(build, self, rhs)

\* impl SubAssign<Duration> for Instant
sub_assign(build, self, rhs) == sub_duration(build, self, rhs)

\* #[derive(Clone, Copy)]
clone(self) == Instant(self.count)

\* #[derive(PartialEq, Eq)]: field by field.
eq(a, b) == a.count = b.count

\* The comparison with its operands exchanged.
cmp_reversed(a, b) == UCmp(b.count, a.count)

\* #[derive(PartialOrd, Ord)]: the fields in order, here the one counter.
cmp(a, b) == UCmp(a.count, b.count)
lt(a, b) == cmp(a, b) = "Less"
le(a, b) == cmp(a, b) # "Greater"
gt(a, b) == cmp(a, b) = "Greater"
ge(a, b) == cmp(a, b) # "Less"

----------------------------------------------------------------------------
(* A client of the type: a variable x it operates on in place, another      *)
(* holder y, and the last operation it ran with its operands and result.    *)

\* Longest sequence of in-place steps (+=, -=) the client runs.
MaxSteps == 2

\* Counters the time source hands out: 0, 100 and 300 (the tests' values),
\* 2^64 + 100 (beyond what a u64 of nanoseconds spans) and u128::MAX.
Counters ==
    { FromNat(0, U128Limbs), FromNat(100, U128Limbs), FromNat(300, U128Limbs),
      <<100, 0, 0, 0, 1, 0, 0, 0>>, MaxUInt(U128Limbs) }

\* Counters of the other holder: 100 and 2^64 + 100, which lie below, at
\* and above the values x takes, less and more than 2^64 ns away.
OtherCounters ==
    { FromNat(100, U128Limbs), <<100, 0, 0, 0, 1, 0, 0, 0>> }

\* Durations the client uses: zero, 100 ns, 200 ns (the tests' value),
\* 2^64 ns = Duration::new(18446744073, 709551616), and Duration::MAX.
Durations ==
    { Duration(Zeros(U64Limbs), 0), Duration(Zeros(U64Limbs), 100),
      Duration(Zeros(U64Limbs), 200),
      Duration(<<64009, 19330, 4, 0>>, 709551616),
      Duration(MaxUInt(U64Limbs), NANOS_PER_SEC - 1) }

\* Width of the exact (never wrapping) sums kept for bookkeeping.
WideLimbs == U128Limbs + 1

VARIABLES
    build,      \* how the crate was built: "checked" or "unchecked"
    x,          \* the Instant variable the in-place operators act on
    y,          \* another holder of an Instant
    last,       \* the last operation: name, operands, outcome
    steps,      \* number of in-place steps run so far
    panicked,   \* the client stopped in a panic
    c0,         \* x's counter at the start
    added,      \* exact sum of the nanoseconds added to x by +=
    subbed,     \* exact sum of the nanoseconds subtracted from x by -=
    exact       \* no in-place step so far overflowed or underflowed

vars == <<build, x, y, last, steps, panicked, c0, added, subbed, exact>>

\* The record of an operation; the fields an operation does not have hold
\* NoInstant, NoDuration, NoCount or "".
Record(op, self, other, rhs, ok, inst, dur, raw, ord) ==
    [op |-> op, self |-> self, other |-> other, rhs |-> rhs, ok |-> ok,
     inst |-> inst, dur |-> dur, raw |-> raw, ord |-> ord]

InPlaceOps == {"add_assign", "sub_assign"}

Init ==
    /\ build \in Builds
    /\ x \in {Instant(c) : c \in Counters}
    /\ y \in {Instant(c) : c \in OtherCounters}
    /\ last = Record("none", NoInstant, NoInstant, NoDuration, TRUE,
                     NoInstant, NoDuration, NoCount, "")
    /\ steps = 0
    /\ panicked = FALSE
    /\ c0 = Widen(x.count, WideLimbs)
    /\ added = Zeros(WideLimbs)
    /\ subbed = Zeros(WideLimbs)
    /\ exact = TRUE

\* The client runs in-place steps and then one operation whose result it
\* looks at; a panic ends it at once.
Running == ~panicked /\ last.op \in InPlaceOps \cup {"none"}

\* x += d
AddAssignStep ==
    /\ Running
    /\ steps < MaxSteps
    /\ \E d \in Durations :
        LET r == add_assign(build, x, d)
        IN  /\ x' = IF r.ok THEN r.val ELSE x
            /\ last' = Record("add_assign", x, NoInstant, d, r.ok,
                              r.val, NoDuration, NoCount, "")
            /\ panicked' = ~r.ok
            /\ added' = IF r.ok
                        THEN UAdd(added, Widen(as_nanos(d), WideLimbs)).val
                        ELSE added
            /\ exact' = (exact /\ ~UAdd(x.count, as_nanos(d)).overflow)
    /\ steps' = steps + 1
    /\ UNCHANGED <<build, y, c0, subbed>>

\* x -= d
SubAssignStep ==
    /\ Running
    /\ steps < MaxSteps
    /\ \E d \in Durations :
        LET r == sub_assign(build, x, d)
        IN  /\ x' = IF r.ok THEN r.val ELSE x
            /\ last' = Record("sub_assign", x, NoInstant, d, r.ok,
                              r.val, NoDuration, NoCount, "")
            /\ panicked' = ~r.ok
            /\ subbed' = IF r.ok
                         THEN UAdd(subbed, Widen(as_nanos(d), WideLimbs)).val
                         ELSE subbed
            /\ exact' = (exact /\ ~USub(x.count, as_nanos(d)).overflow)
    /\ steps' = steps + 1
    /\ UNCHANGED <<build, y, c0, added>>

\* The two holders in either order.
Pairs == {<<x, y>>, <<y, x>>}

\* a + d
AddStep ==
    /\ Running
    /\ \E a \in {x, y}, d \in Durations :
        LET r == add(build, a, d)
        IN  /\ last' = Record("add", a, NoInstant, d, r.ok,
                              r.val, NoDuration, NoCount, "")
            /\ panicked' = ~r.ok
    /\ UNCHANGED <<build, x, y, steps, c0, added, subbed, exact>>

\* a - d
SubDurationStep ==
    /\ Running
    /\ \E a \in {x, y}, d \in Durations :
        LET r == sub_duration(build, a, d)
        IN  /\ last' = Record("sub_duration", a, NoInstant, d, r.ok,
                              r.val, NoDuration, NoCount, "")
            /\ panicked' = ~r.ok
    /\ UNCHANGED <<build, x, y, steps, c0, added, subbed, exact>>

\* a.duration_since(b)
DurationSinceStep ==
    /\ Running
    /\ \E p \in Pairs :
        LET r == duration_since(build, p[1], p[2])
        IN  /\ last' = Record("duration_since", p[1], p[2], NoDuration, r.ok,
                              NoInstant, r.val, NoCount, "")
            /\ panicked' = ~r.ok
    /\ UNCHANGED <<build, x, y, steps, c0, added, subbed, exact>>

\* a - b
SubInstantStep ==
    /\ Running
    /\ \E p \in Pairs :
        LET r == sub_instant(build, p[1], p[2])
        IN  /\ last' = Record("sub_instant", p[1], p[2], NoDuration, r.ok,
                              NoInstant, r.val, NoCount, "")
            /\ panicked' = ~r.ok
    /\ UNCHANGED <<build, x, y, steps, c0, added, subbed, exact>>

\* a.into_inner()
IntoInnerStep ==
    /\ Running
    /\ \E a \in {x, y} :
        last' = Record("into_inner", a, NoInstant, NoDuration, TRUE,
                       NoInstant, NoDuration, into_inner(a), "")
    /\ UNCHANGED <<build, x, y, steps, panicked, c0, added, subbed, exact>>

\* a.cmp(&b), with a == b and a < b alongside
CmpStep ==
    /\ Running
    /\ \E a \in {x, y}, b \in {x, y} :
        last' = Record("cmp", a, b, NoDuration, TRUE,
                       NoInstant, NoDuration, NoCount, cmp(a, b))
    /\ UNCHANGED <<build, x, y, steps, panicked, c0, added, subbed, exact>>

\* let t = x.clone(); the copy is what the client looks at
CloneStep ==
    /\ Running
    /\ last' = Record("clone", x, NoInstant, NoDuration, TRUE,
                      clone(x), NoDuration, NoCount, "")
    /\ UNCHANGED <<build, x, y, steps, panicked, c0, added, subbed, exact>>

Next ==
    \/ AddAssignStep
    \/ SubAssignStep
    \/ AddStep
    \/ SubDurationStep
    \/ DurationSinceStep
    \/ SubInstantStep
    \/ IntoInnerStep
    \/ CmpStep
    \/ CloneStep

Spec == Init /\ [][Next]_vars

TypeOK ==
    /\ build \in Builds
    /\ IsInstant(x)
    /\ IsInstant(y)
    /\ steps \in 0..MaxSteps
    /\ panicked \in BOOLEAN
    /\ IsUInt(c0, WideLimbs) /\ IsUInt(added, WideLimbs) /\ IsUInt(subbed, WideLimbs)

----------------------------------------------------------------------------
(* Arithmetic facts the properties are stated with, computed without the    *)
(* operations under test: exact sums one limb wider than a u128.            *)

\* 2^64 as a u128, and 2^128 as a wide integer.
TwoPow64 == Widen(Zeros(U64Limbs) \o <<1>>, U128Limbs)
TwoPow128 == Zeros(U128Limbs) \o <<1>>

Wide(p) == Widen(p, WideLimbs)

\* p + q without wrapping, for u128 p and q.
ExactSum(p, q) == UAdd(Wide(p), Wide(q)).val

\* a.count + d.as_nanos() >= 2^128
AddOverflows(a, d) == ULe(TwoPow128, ExactSum(a.count, as_nanos(d)))

\* d.as_nanos() > a.count
SubUnderflows(a, d) == ULt(a.count, as_nanos(d))

\* p < q numerically: subtracting q from p borrows.
NumLess(p, q) == USub(p, q).overflow

\* p mod 2^64 = q mod 2^64 for u128 p and q: the low limbs agree.
SameLow64(p, q) == \A i \in 1..U64Limbs : p[i] = q[i]

\* d.as_nanos() # 0
NonZero(d) == as_nanos(d) # Zeros(U128Limbs)

----------------------------------------------------------------------------
(* Properties *)

\* C1: round trip.  When a + d does not overflow, (a + d) - d = a, and when
\* d.as_nanos() <= a.count, (a - d) + d = a; also for d of 2^64 ns or more.
RoundTrip ==
    /\ (last.op = "add" /\ ~AddOverflows(last.self, last.rhs)) =>
            /\ last.ok
            /\ sub_duration(build, last.inst, last.rhs) = Ok(last.self)
    /\ (last.op = "sub_duration" /\ ~SubUnderflows(last.self, last.rhs)) =>
            /\ last.ok
            /\ add(build, last.inst, last.rhs) = Ok(last.self)

\* A subtraction of a Duration of at least 2^64 ns that did not underflow.
RoundTripWitness ==
    /\ last.op = "sub_duration"
    /\ ~SubUnderflows(last.self, last.rhs)
    /\ ULe(TwoPow64, as_nanos(last.rhs))
    /\ last.inst # last.self

\* What duration_since or `-` on two Instants computed in the last step.
IsDifference == last.op \in {"duration_since", "sub_instant"}
InOrder == ~NumLess(last.self.count, last.other.count)
Difference == USub(last.self.count, last.other.count).val

\* C2: for self.count >= earlier.count, duration_since returns exactly
\* self.count - earlier.count nanoseconds when that is below 2^64, and that
\* difference mod 2^64 otherwise; the result is always below 2^64 ns.
DurationSinceNarrows ==
    (last.op = "duration_since" /\ InOrder) =>
        /\ last.ok
        /\ IsDuration(last.dur)
        /\ ULt(Difference, TwoPow64) => as_nanos(last.dur) = Difference
        /\ SameLow64(as_nanos(last.dur), Difference)
        /\ ULt(as_nanos(last.dur), TwoPow64)

\* duration_since over 2^64 ns or more, where the narrowing loses the high
\* bits.
DurationSinceNarrowsWitness ==
    /\ last.op = "duration_since"
    /\ InOrder
    /\ ULe(TwoPow64, Difference)
    /\ as_nanos(last.dur) # Difference

\* C3: a - b on Instants gives what a.duration_since(b) gives, whatever the
\* difference, and the two fault on the same inputs: a checked build panics
\* in both exactly when b.count > a.count.
SubtractionFormsAgree ==
    /\ last.op = "sub_instant" =>
            [ok |-> last.ok, val |-> last.dur]
                = duration_since(build, last.self, last.other)
    /\ last.op = "duration_since" =>
            [ok |-> last.ok, val |-> last.dur]
                = sub_instant(build, last.self, last.other)
    /\ IsDifference => (last.ok <=> ~(build = "checked" /\ ~InOrder))

\* a - b on Instants 2^64 ns or more apart.
SubtractionFormsAgreeWitness ==
    /\ last.op = "sub_instant"
    /\ InOrder
    /\ ULe(TwoPow64, Difference)
    /\ last.ok

\* The Instants the client holds or held: x, y and x's first value.
Held == {x, y, Instant(SubSeq(c0, 1, U128Limbs))}

\* C4: the order of Instants is the numeric order of their counters, and
\* equality is equality of the counters; the order is reflexive on equality,
\* antisymmetric, transitive and total.
OrderMatchesCounter ==
    last.op = "cmp" =>
        /\ last.ord = IF NumLess(into_inner(last.self), into_inner(last.other))
                      THEN "Less"
                      ELSE IF NumLess(into_inner(last.other), into_inner(last.self))
                      THEN "Greater"
                      ELSE "Equal"
        /\ \A a \in Held, b \in Held :
            /\ lt(a, b) <=> NumLess(into_inner(a), into_inner(b))
            /\ gt(a, b) <=> NumLess(into_inner(b), into_inner(a))
            /\ eq(a, b) <=> into_inner(a) = into_inner(b)
            /\ eq(a, b) <=> cmp(a, b) = "Equal"
            /\ le(a, b) <=> (lt(a, b) \/ eq(a, b))
            /\ ge(a, b) <=> (gt(a, b) \/ eq(a, b))
            /\ (le(a, b) /\ le(b, a)) => eq(a, b)
            /\ lt(a, b) \/ eq(a, b) \/ gt(a, b)
            /\ ~(lt(a, b) /\ gt(a, b))
            /\ \A c \in Held : (le(a, b) /\ le(b, c)) => le(a, c)
        /\ \A a \in Held : eq(a, a) /\ eq(a, clone(a)) /\ cmp(a, a) = "Equal"

\* A comparison the low limbs alone would get wrong: 300 against 2^64 + 100.
OrderMatchesCounterWitness ==
    /\ last.op = "cmp"
    /\ last.ord = "Less"
    /\ last.self.count[1] > last.other.count[1]
    /\ Cardinality(Held) = 3

\* C5 as stated: for every Instant a and non-zero Duration d, a + d > a, and
\* a - d < a when the subtraction does not underflow.
MonotonicAlways ==
    /\ (last.op = "add" /\ NonZero(last.rhs) /\ last.ok) =>
            gt(last.inst, last.self)
    /\ (last.op = "sub_duration" /\ NonZero(last.rhs)
            /\ ~SubUnderflows(last.self, last.rhs)) =>
            last.ok /\ lt(last.inst, last.self)

\* C5 amended: for non-zero d, a + d > a when a.count + d.as_nanos() does
\* not overflow the 128-bit counter, and a - d < a when the subtraction does
\* not underflow.
MonotonicUnlessOverflow ==
    /\ (last.op = "add" /\ NonZero(last.rhs)
            /\ ~AddOverflows(last.self, last.rhs)) =>
            last.ok /\ gt(last.inst, last.self)
    /\ (last.op = "sub_duration" /\ NonZero(last.rhs)
            /\ ~SubUnderflows(last.self, last.rhs)) =>
            last.ok /\ lt(last.inst, last.self)

\* An addition of a sub-second Duration that did not overflow.
MonotonicWitness ==
    /\ last.op = "add"
    /\ NonZero(last.rhs)
    /\ last.rhs.secs = Zeros(U64Limbs)
    /\ ~AddOverflows(last.self, last.rhs)
    /\ last.ok

\* C6: after x += d, x holds (old x) + d, and after x -= d, (old x) - d;
\* the in-place operators change no other holder, and the other operations
\* change no holder at all.
CompoundForms ==
    [][ /\ (steps' # steps /\ last'.op = "add_assign" /\ last'.ok) =>
                Ok(x') = add(build, x, last'.rhs)
        /\ (steps' # steps /\ last'.op = "sub_assign" /\ last'.ok) =>
                Ok(x') = sub_duration(build, x, last'.rhs)
        /\ steps' # steps => (last'.op \in InPlaceOps /\ last'.self = x)
        /\ steps' = steps => x' = x
        /\ y' = y
      ]_vars

\* x was changed in place while y still holds the value x started with.
CompoundFormsWitness ==
    /\ last.op \in InPlaceOps
    /\ last.ok
    /\ x = last.inst
    /\ x # last.self
    /\ Wide(y.count) = c0

\* C7: subtracting a Duration of exactly a.count nanoseconds gives the zero
\* Instant without a fault, by - and by -=; a checked build rejects the
\* subtraction of any larger Duration with a panic and gives no Instant.
SubtractToZero ==
    last.op \in {"sub_duration", "sub_assign"} =>
        /\ as_nanos(last.rhs) = last.self.count =>
                /\ last.ok
                /\ last.inst = Instant(Zeros(U128Limbs))
                /\ into_inner(last.inst) = Zeros(U128Limbs)
        /\ (build = "checked" /\ SubUnderflows(last.self, last.rhs)) =>
                /\ ~last.ok
                /\ last.inst = NoInstant
                /\ panicked
        /\ (last.op = "sub_assign" /\ as_nanos(last.rhs) = last.self.count)
                => x = Instant(Zeros(U128Limbs))

\* A non-zero Instant minus a Duration of exactly its counter.
SubtractToZeroWitness ==
    /\ last.op = "sub_duration"
    /\ as_nanos(last.rhs) = last.self.count
    /\ NonZero(last.rhs)
    /\ last.ok

\* Whether the last operation's counter arithmetic left the u128 range.
Overflowed ==
    CASE last.op \in {"add", "add_assign"} ->
            AddOverflows(last.self, last.rhs)
      [] last.op \in {"sub_duration", "sub_assign"} ->
            SubUnderflows(last.self, last.rhs)
      [] IsDifference -> NumLess(last.self.count, last.other.count)
      [] OTHER -> FALSE

\* The u128 w with w = p - q (mod 2^128), from exact sums: w + q = p or
\* w + q = p + 2^128.
IsWrappedDiff(w, p, q) ==
    \/ ExactSum(w, q) = Wide(p)
    \/ ExactSum(w, q) = UAdd(Wide(p), TwoPow128).val

\* The bits of the wrapped difference that the narrowing drops.
HighOfDifference == SubSeq(Difference, U64Limbs + 1, U128Limbs)

\* C8: overflow or underflow of the counter is the only failure.  A checked
\* build panics, and gives no result, exactly when + or += is given
\* a.count + d.as_nanos() >= 2^128, - or -= a Duration above a.count, or
\* duration_since or - an earlier Instant with the larger counter.  An
\* unchecked build then wraps modulo 2^128 (and duration_since narrows the
\* wrapped difference modulo 2^64).  Everything else returns a value; the
\* narrowing itself never faults.
OneFailureMode ==
    /\ last.ok <=> ~(build = "checked" /\ Overflowed)
    /\ panicked <=> ~last.ok
    /\ ~last.ok =>
            /\ last.inst = NoInstant
            /\ last.dur = NoDuration
            /\ last.raw = NoCount
    /\ (last.ok /\ last.op \in {"add", "add_assign"}) =>
            /\ IsInstant(last.inst)
            /\ IsWrappedDiff(last.self.count, last.inst.count,
                             as_nanos(last.rhs))
    /\ (last.ok /\ last.op \in {"sub_duration", "sub_assign"}) =>
            /\ IsInstant(last.inst)
            /\ IsWrappedDiff(last.inst.count, last.self.count,
                             as_nanos(last.rhs))
    /\ (last.ok /\ IsDifference) =>
            /\ IsDuration(last.dur)
            /\ ULt(as_nanos(last.dur), TwoPow64)
            /\ IsWrappedDiff(TruncU64(as_nanos(last.dur)) \o HighOfDifference,
                             last.self.count, last.other.count)
    /\ last.op = "into_inner" => last.raw = last.self.count
    /\ last.op = "clone" => last.inst = last.self

\* An unchecked build wrapping the difference of two Instants out of order.
OneFailureModeWitness ==
    /\ build = "unchecked"
    /\ last.op = "duration_since"
    /\ Overflowed
    /\ last.ok
    /\ NonZero(last.dur)

\* C9 as stated: for a.count <= b.count, a + (b - a) = b and
\* b - (b - a) = a, with b - a from duration_since or from `-`.
DifferenceCarriesAlways ==
    (IsDifference /\ InOrder) =>
        /\ last.ok
        /\ add(build, last.other, last.dur) = Ok(last.self)
        /\ sub_duration(build, last.self, last.dur) = Ok(last.other)

\* C9 amended: for a.count <= b.count with b.count - a.count below 2^64,
\* a + (b - a) = b and b - (b - a) = a.
DifferenceCarriesBelowU64 ==
    (IsDifference /\ InOrder /\ ULt(Difference, TwoPow64)) =>
        /\ last.ok
        /\ add(build, last.other, last.dur) = Ok(last.self)
        /\ sub_duration(build, last.self, last.dur) = Ok(last.other)

\* A difference of at least 2^48 ns and below 2^64 ns.
DifferenceCarriesWitness ==
    /\ IsDifference
    /\ InOrder
    /\ ULt(Difference, TwoPow64)
    /\ Difference[U64Limbs] # 0
    /\ last.ok

\* C10: while no in-place step has overflowed or underflowed,
\* x.into_inner() = c0 + (sum added) - (sum subtracted), whatever the order
\* of the steps; a step on which a checked build panics leaves x as it was.
RunningTotal ==
    /\ exact =>
            UAdd(Wide(into_inner(x)), subbed).val = UAdd(c0, added).val
    /\ (last.op \in InPlaceOps /\ ~last.ok) => (build = "checked" /\ x = last.self)
    /\ (build = "checked" /\ ~panicked) => exact

\* Two in-place steps, an addition and a subtraction, neither faulting.
RunningTotalWitness ==
    /\ steps = 2
    /\ exact
    /\ added # Zeros(WideLimbs)
    /\ subbed # Zeros(WideLimbs)
    /\ last.op \in InPlaceOps

====
